---- MODULE Spec2Model ----
(***************************************************************************)
(* K-nearest-neighbours classification as carried out by                   *)
(* source/classification1.py: the hand-written neighbour search            *)
(* (distance column, sort_values, head), the np.argpartition selection,    *)
(* the KNeighborsClassifier fit / predict calls and the StandardScaler     *)
(* fit / transform calls.                                                  *)
(*                                                                         *)
(* A distance sqrt(r) is represented by its radicand r: the square root    *)
(* is strictly increasing, so order and equality of distances are those    *)
(* of the radicands.                                                       *)
(***************************************************************************)
EXTENDS Integers, Sequences, FiniteSets, TLC

VARIABLES
    cancer,        \* the training table (a pandas DataFrame, rows in insertion order)
    K,             \* the number of neighbours asked for
    cancer_dist,   \* the table of the K nearest rows built by sort_values / head
    min_idx,       \* the row labels kept from np.argpartition(my_distances, K)[:K]
    knn_spec,      \* the KNeighborsClassifier object
    neigh_ind,     \* per query point, the neighbours kneighbors finds for it
    new_obs_pred,  \* the array knn_spec.predict(new_obs) returns
    y_pred,        \* the labels predict has computed so far for pcgrid
    knnPredGrid,   \* knn_spec.predict(pcgrid)
    unscaled_cancer,  \* the unscaled table with its Area and Smoothness columns
    preprocessor,  \* the column transformer holding the StandardScaler
    scaled_cancer, \* preprocessor.transform(unscaled_cancer)
    Xt,            \* new_observation as the pipeline hands it to knn_spec
    prediction,    \* knn_fit.predict(new_observation)
    points,        \* a table of observations, each taken in turn as the new observation
    dist_to,       \* the dist_from_new column of the table, per new observation
    query_pred,    \* the last predict call on an observation of any shape, and its outcome
    rare_cancer,   \* the table with few Malignant rows
    upsampled_cancer, \* per random_state, the table the upsampling cell builds
    pcgrid_table,     \* the data frame pcgrid as it stands
    prediction_table, \* the data frame prediction_table
    near_neighbor     \* the rows the three neighbour segments are drawn to

vars == <<cancer, K, cancer_dist, min_idx, knn_spec, neigh_ind, new_obs_pred, y_pred,
          knnPredGrid, unscaled_cancer, preprocessor, scaled_cancer, Xt, prediction,
          points, dist_to, query_pred, rare_cancer, upsampled_cancer,
          pcgrid_table, prediction_table, near_neighbor>>

nearest_vars == <<cancer_dist, min_idx>>
knn_vars == <<knn_spec, neigh_ind, new_obs_pred, y_pred, knnPredGrid>>
grid_vars == <<neigh_ind, new_obs_pred, y_pred, knnPredGrid>>
scale_vars == <<unscaled_cancer, preprocessor, scaled_cancer, Xt, prediction>>
resample_vars == <<rare_cancer, upsampled_cancer>>
table_vars == <<pcgrid_table, prediction_table>>
other_vars == <<points, dist_to, query_pred, resample_vars, table_vars, near_neighbor>>


-----------------------------------------------------------------------------
(* Bounds of the model *)

MaxN == 3
MaxCoord == 1
MaxFeature == 2

-----------------------------------------------------------------------------
(* Values *)

\* What a notebook variable holds: nothing yet, the value a call returned, or
\* the exception the call raised.
Unset == [status |-> "unset", value |-> <<>>]
Returned(v) == [status |-> "ok", value |-> v]
Raised(e) == [status |-> e, value |-> <<>>]
ValueError == "ValueError"

\* No predict call on an observation of any shape has been made yet.
NoQuery == [via |-> "none", query |-> <<>>, result |-> Unset]

\* kneighbors has not been asked about a query yet.
NoNeighbours == [status |-> "unset", value |-> {}]

Labels == {"B", "M"}
Coords == 0 .. MaxCoord
Points == [Perimeter : Coords, Concavity : Coords]
Rows == [Perimeter : Coords, Concavity : Coords, Class : Labels]

\* The new observation whose neighbours are searched.
new_obs == [Perimeter |-> 1, Concavity |-> 0]

\* Training tables are taken up to a permutation of their rows: every
\* operation below treats the rows alike, and the tie orders of the sort and
\* of the partition range over every order the rows can come out in.
RowKey(r) == (r.Perimeter * (MaxCoord + 1) + r.Concavity) * 2
                + (IF r.Class = "M" THEN 1 ELSE 0)

Tables == UNION { { t \in [1 .. n -> Rows] :
                      \A i \in 1 .. n - 1 : RowKey(t[i]) <= RowKey(t[i + 1]) } :
                  n \in 1 .. MaxN }

KValues(n) == 0 .. n + 1

\* The orders n rows can come out in.
RowOrders ==
    [n \in 0 .. MaxN + 1 |->
        { p \in [1 .. n -> 1 .. n] : \A i, j \in 1 .. n : p[i] = p[j] => i = j }]

Perms(n) == RowOrders[n]

-----------------------------------------------------------------------------
(* The hand-written neighbour search *)

\* (Perimeter - new_obs_Perimeter) ** 2 + (Concavity - new_obs_Concavity) ** 2,
\* the radicand of np.sqrt(...).
dist_from_new(row, obs) ==
    (row.Perimeter - obs.Perimeter) * (row.Perimeter - obs.Perimeter)
  + (row.Concavity - obs.Concavity) * (row.Concavity - obs.Concavity)

\* cancer.loc[:, [...]] is a copy of the table; the assignment adds the
\* dist_from_new column to the copy.  idx is the pandas index label.
WithDist(df, obs) ==
    [i \in 1 .. Len(df) |->
        [idx |-> i, Perimeter |-> df[i].Perimeter, Concavity |-> df[i].Concavity,
         Class |-> df[i].Class, dist_from_new |-> dist_from_new(df[i], obs)]]

\* (a sort that leaves the rows in the order it found them)
SortOrders_unsorted(df) == Perms(Len(df))

\* The orders sort_values(by="dist_from_new") can return: the default
\* kind="quicksort" is not stable, so rows of equal distance come out in an
\* order the library fixes but the table does not.
SortOrders(df) ==
    { p \in Perms(Len(df)) :
        \A i \in 1 .. Len(df) - 1 :
            df[p[i]].dist_from_new <= df[p[i + 1]].dist_from_new }

Take(df, p) == [i \in 1 .. Len(p) |-> df[p[i]]]

\* (a head that ignores its argument; a head that takes the last rows)
head_all(df, n) == df
head_last(df, n) ==
    SubSeq(df, (IF n < Len(df) THEN Len(df) - n ELSE 0) + 1, Len(df))

\* DataFrame.head(n): the first n rows, all rows when n exceeds the length,
\* and all but the last |n| rows when n is negative.
head(df, n) ==
    IF n >= 0
    THEN SubSeq(df, 1, IF n < Len(df) THEN n ELSE Len(df))
    ELSE SubSeq(df, 1, IF Len(df) + n > 0 THEN Len(df) + n ELSE 0)

sort_values_head(df, p, n) == head(Take(df, p), n)

\* The table the caller keeps after the cell has run: the cell works on a copy.
cancer_after_nearest(df, sorted) == df

\* What the cell can leave in cancer_dist: one table per order the sort can
\* return.
nearest_results(df, obs, n) ==
    LET withDist == WithDist(df, obs)
    IN  { sort_values_head(withDist, p, n) : p \in SortOrders(withDist) }

\* (a routine that may order equal distances differently at each run)
same_as_before_free(before, r) == TRUE

\* sort_values and np.argpartition are deterministic routines: run again on
\* the same data they return what they returned before, equal distances
\* included.
same_as_before(before, r) == before \in {Unset, Returned(r)}

\* The whole cell: copy, distance column, sort, head.  The sort is a
\* deterministic routine: run again on the same table, the cell returns the
\* rows it returned before.
NearestCell ==
    /\ \E r \in nearest_results(cancer, new_obs, K) :
          /\ same_as_before(cancer_dist, r)
          /\ cancer_dist' = Returned(r)
          /\ cancer' = cancer_after_nearest(cancer, r)
    /\ UNCHANGED <<K, min_idx, knn_vars, scale_vars, other_vars>>

-----------------------------------------------------------------------------
(* The table with few Malignant rows and its upsampling *)

\* The values of random_state the upsampling is tried with.
Seeds == {100, 101}

\* df.query("Class == '...'") and df[df["Class"] == ...]: the rows with that
\* label, in their order.
with_class(df, label) == SelectSeq(df, LAMBDA r : r.Class = label)

\* The label as rare_cancer spells it.
class_name(x) == IF x = "M" THEN "Malignant" ELSE "Benign"

\* (a table that keeps every M row of cancer)
rare_cancer_all(df) ==
    LET kept == with_class(df, "B") \o with_class(df, "M")
    IN  [i \in 1 .. Len(kept) |-> [kept[i] EXCEPT !.Class = class_name(kept[i].Class)]]

\* rare_cancer: the B rows of cancer followed by its first three M rows,
\* the labels spelled out.
rare_cancer_of(df) ==
    LET kept == with_class(df, "B") \o head(with_class(df, "M"), 3)
    IN  [i \in 1 .. Len(kept) |-> [kept[i] EXCEPT !.Class = class_name(kept[i].Class)]]

-----------------------------------------------------------------------------
(* np.argpartition *)

\* my_distances: the distance of every training row to the new observation.
my_distances(df, obs) == [i \in 1 .. Len(df) |-> dist_from_new(df[i], obs)]

\* The index arrays np.argpartition(d, kth) can return: the element at
\* (0-based) position kth is in its sorted place, smaller or equal ones are
\* before it and larger or equal ones after it, in no particular order.
PartitionOrders(d, kth) ==
    { p \in Perms(Len(d)) :
        /\ \A i \in 1 .. kth : d[p[i]] <= d[p[kth + 1]]
        /\ \A i \in kth + 2 .. Len(d) : d[p[i]] >= d[p[kth + 1]] }

\* np.argpartition raises ValueError when kth is out of bounds.
argpartition_ok(d, kth) == kth < Len(d) /\ kth >= 0 - Len(d)

\* (the slice taken from the other end: the last kth indices)
argpartition_tail(d, kth) ==
    { SubSeq(p, Len(p) - kth + 1, Len(p)) : p \in PartitionOrders(d, kth) }

\* What np.argpartition(d, kth)[:kth] can return.
argpartition_results(d, kth) == { SubSeq(p, 1, kth) : p \in PartitionOrders(d, kth) }

\* np.argpartition(my_distances, K)[:K]
ArgpartitionCell ==
    /\ IF argpartition_ok(my_distances(cancer, new_obs), K)
       THEN \E r \in argpartition_results(my_distances(cancer, new_obs), K) :
               /\ same_as_before(min_idx, r)
               /\ min_idx' = Returned(r)
       ELSE min_idx' = Raised(ValueError)
    /\ UNCHANGED <<cancer, K, cancer_dist, knn_vars, scale_vars, other_vars>>

-----------------------------------------------------------------------------
(* StandardScaler *)

\* make_column_transformer((StandardScaler(), ["Area", "Smoothness"]))
ScaledColumns == {"Area", "Smoothness"}

UnscaledRows == [Area : Coords, Smoothness : Coords, Class : Labels]

UnscaledKey(r) == (r.Area * (MaxCoord + 1) + r.Smoothness) * 2
                     + (IF r.Class = "M" THEN 1 ELSE 0)

\* The unscaled tables, up to a permutation of their rows: the scaler's sums
\* do not depend on the order of the rows and transform works row by row.
UnscaledTables ==
    UNION { { t \in [1 .. n -> UnscaledRows] :
                \A i \in 1 .. n - 1 : UnscaledKey(t[i]) <= UnscaledKey(t[i + 1]) } :
            n \in 1 .. MaxN }

\* The two new observations the pipeline classifies.
new_observation == <<[Area |-> 1, Smoothness |-> 0], [Area |-> 0, Smoothness |-> 1]>>

NotFittedError == "NotFittedError"

column(X, c) == [i \in 1 .. Len(X) |-> X[i][c]]

RECURSIVE SumTo(_, _)
SumTo(col, n) == IF n = 0 THEN 0 ELSE col[n] + SumTo(col, n - 1)

np_sum(col) == SumTo(col, Len(col))

\* (a mean that is always zero: no centering)
column_mean_zero(col) == [num |-> 0, den |-> Len(col)]

\* mean_ of a column, the fraction num / den.
column_mean(col) == [num |-> np_sum(col), den |-> Len(col)]

\* n * n times the (population, ddof = 0) variance of a column:
\* n * sum(v * v) - sum(v) * sum(v).
column_var(col) ==
    Len(col) * np_sum([i \in 1 .. Len(col) |-> col[i] * col[i]])
        - np_sum(col) * np_sum(col)

\* (a scale that is the standard deviation even when that is zero)
column_scale_raw(col) == [rad |-> column_var(col), den |-> Len(col)]

\* scale_ of a column, the number sqrt(rad) / den: the standard deviation,
\* and 1 for a column whose variance is zero.
column_scale(col) ==
    [rad |-> IF column_var(col) = 0 THEN Len(col) * Len(col) ELSE column_var(col),
     den |-> Len(col)]

\* The preprocessor before fit.
make_column_transformer == [state |-> "new", mean_ |-> <<>>, scale_ |-> <<>>]

\* preprocessor.fit(X): the mean and the scale of each of its columns.
preprocessor_fit(pre, X) ==
    [state |-> "fitted",
     mean_ |-> [c \in ScaledColumns |-> column_mean(column(X, c))],
     scale_ |-> [c \in ScaledColumns |-> column_scale(column(X, c))]]

\* (v - mean_) / scale_, the number num / sqrt(rad); mean_ and scale_ of one
\* column have the same den.
standardize(v, mean, scale) == [num |-> mean.den * v - mean.num, rad |-> scale.rad]

\* preprocessor.transform(X): a new table of the standardized columns.
preprocessor_transform(pre, X) ==
    [i \in 1 .. Len(X) |->
        [c \in ScaledColumns |-> standardize(X[i][c], pre.mean_[c], pre.scale_[c])]]

\* (a pipeline that hands the observations to the classifier as they are)
pipeline_transform_skipped(pre, X) ==
    [i \in 1 .. Len(X) |-> [c \in ScaledColumns |-> [num |-> X[i][c], rad |-> 1]]]

\* Pipeline.predict(X): X passes through the transform of the fitted
\* preprocessor before the classifier sees it.
pipeline_transform(pre, X) == preprocessor_transform(pre, X)

\* (a transform that fits the scaler again, on the table it is given)
preprocessor_after_transform_refit(pre, X) == preprocessor_fit(pre, X)

\* The preprocessor after a transform call: transform reads mean_ and scale_
\* and writes neither.
preprocessor_after_transform(pre, X) == pre

\* The squared distance between two standardized rows.  The standardized
\* values of one column share their radicand r, so
\*   (a1 - b1)^2 / r1 + (a2 - b2)^2 / r2
\* is represented by its product with r1 * r2, the same positive factor for
\* every row.
scaled_distance(row, obs) ==
    (row.Area.num - obs.Area.num) * (row.Area.num - obs.Area.num) * row.Smoothness.rad
  + (row.Smoothness.num - obs.Smoothness.num) * (row.Smoothness.num - obs.Smoothness.num)
        * row.Area.rad

-----------------------------------------------------------------------------
(* KNeighborsClassifier *)

\* The grid of points predict is called on, after the single row new_obs.
pcgrid == <<new_obs, [Perimeter |-> 0, Concavity |-> 1]>>

\* np.unique sorts the class labels.
LabelOrder == <<"B", "Benign", "M", "Malignant">>

Range(f) == { f[i] : i \in DOMAIN f }

\* knn_spec = KNeighborsClassifier(n_neighbors=K): the constructor stores its
\* argument and checks nothing.
KNeighborsClassifier(n) ==
    [n_neighbors |-> n, state |-> "new", fit_X |-> <<>>, y |-> <<>>, classes |-> <<>>]

\* X = cancer_train.loc[:, ["Perimeter", "Concavity"]]
X_of(df) == [i \in 1 .. Len(df) |->
                [Perimeter |-> df[i].Perimeter, Concavity |-> df[i].Concavity]]

\* y = cancer_train["Class"]
y_of(df) == [i \in 1 .. Len(df) |-> df[i].Class]

\* (a fit that does not look at n_neighbors)
fit_unchecked(knn, X, y) ==
    [knn EXCEPT !.state = "fitted", !.fit_X = X, !.y = y,
                !.classes = SelectSeq(LabelOrder, LAMBDA c : c \in Range(y))]

\* fit rejects n_neighbors <= 0 (ValueError) and otherwise stores its own
\* copy of the training data and the sorted class labels; it does not
\* compare n_neighbors with the number of samples.
fit(knn, X, y) ==
    IF knn.n_neighbors <= 0
    THEN [knn EXCEPT !.state = "fit_raised"]
    ELSE [knn EXCEPT !.state = "fitted", !.fit_X = X, !.y = y,
                     !.classes = SelectSeq(LabelOrder, LAMBDA c : c \in Range(y))]

\* knn_spec.fit(X=..., y=...)
Fit ==
    /\ knn_spec.state = "new"
    /\ knn_spec' = fit(knn_spec, X_of(cancer), y_of(cancer))
    /\ UNCHANGED <<cancer, K, nearest_vars, grid_vars, scale_vars, other_vars>>

\* kneighbors raises ValueError when n_neighbors exceeds the number of
\* fitted samples.
kneighbors_ok(knn) == knn.n_neighbors <= Len(knn.fit_X)

\* The distances kneighbors computes from one query to the fitted rows, over
\* the columns the classifier was fitted on.
fit_distances(fit_X, obs) ==
    [i \in 1 .. Len(fit_X) |->
        IF "Area" \in DOMAIN obs THEN scaled_distance(fit_X[i], obs)
                                 ELSE dist_from_new(fit_X[i], obs)]

\* (one neighbour more than n_neighbors)
kneighbors_one_more(knn, obs) ==
    LET d == fit_distances(knn.fit_X, obs)
    IN  { S \in SUBSET (1 .. Len(d)) :
            /\ Cardinality(S) = knn.n_neighbors + 1
            /\ \A i \in S : \A j \in (1 .. Len(d)) \ S : d[i] <= d[j] }

\* (neighbours taken from the far end)
kneighbors_farthest(knn, obs) ==
    LET d == fit_distances(knn.fit_X, obs)
    IN  { S \in SUBSET (1 .. Len(d)) :
            /\ Cardinality(S) = knn.n_neighbors
            /\ \A i \in S : \A j \in (1 .. Len(d)) \ S : d[i] >= d[j] }

\* The neighbours kneighbors can return for one query: n_neighbors fitted
\* rows, none of them farther than a row left out.  Which of several
\* equidistant rows are taken is fixed by the library, not by the data.  The
\* rows are kept as a set: predict counts their labels and does not read
\* their order.
kneighbors_results(knn, obs) ==
    LET d == fit_distances(knn.fit_X, obs)
    IN  { S \in SUBSET (1 .. Len(d)) :
            /\ Cardinality(S) = knn.n_neighbors
            /\ \A i \in S : \A j \in (1 .. Len(d)) \ S : d[i] <= d[j] }

\* The neighbours kneighbors can return for the first n rows of a table of
\* queries, one set of neighbours per row.
RECURSIVE kneighbors_of_rows(_, _, _)
kneighbors_of_rows(knn, X, n) ==
    IF n = 0
    THEN {<<>>}
    ELSE { Append(nbs, nb) : nbs \in kneighbors_of_rows(knn, X, n - 1),
                             nb \in kneighbors_results(knn, X[n]) }

\* The votes of class c among the neighbours.
votes(knn, neigh, c) == Cardinality({ i \in neigh : knn.y[i] = c })

\* (a vote that always answers the first class; a vote that takes the last of
\* several classes with equally many votes)
predict_label_first(knn, neigh) == knn.classes[1]
predict_label_last(knn, neigh) ==
    LET n == Len(knn.classes)
        best == CHOOSE c \in 1 .. n :
                   /\ \A e \in 1 .. n :
                        votes(knn, neigh, knn.classes[e]) <= votes(knn, neigh, knn.classes[c])
                   /\ \A e \in c + 1 .. n :
                        votes(knn, neigh, knn.classes[e]) < votes(knn, neigh, knn.classes[c])
    IN  knn.classes[best]

\* (a vote that answers one label whatever the neighbours)
predict_label_default(knn, neigh) == "B"

\* The predicted label: the class with the most votes; argmax takes the first
\* of several classes with equally many votes, in the sorted order of classes_.
predict_label(knn, neigh) ==
    LET n == Len(knn.classes)
        best == CHOOSE c \in 1 .. n :
                   /\ \A e \in 1 .. n :
                        votes(knn, neigh, knn.classes[e]) <= votes(knn, neigh, knn.classes[c])
                   /\ \A e \in 1 .. c - 1 :
                        votes(knn, neigh, knn.classes[e]) < votes(knn, neigh, knn.classes[c])
    IN  knn.classes[best]

\* (a row labelled with the label of a row labelled before it, when there is
\* one)
predict_row_shared(knn, neigh, X, i, done) ==
    IF \E j \in DOMAIN done : j # i /\ done[j] # "?"
    THEN done[CHOOSE j \in DOMAIN done : j # i /\ done[j] # "?"]
    ELSE predict_label(knn, neigh)

\* The label of row i of X: it is computed from the fitted data and that row
\* alone, whatever rows have been labelled already.
predict_row(knn, neigh, X, i, done) == predict_label(knn, neigh)

\* (a predict that sorts the fitted rows by their distance to the query, in
\* place)
knn_after_predict_sorted(knn, obs) ==
    LET d == fit_distances(knn.fit_X, obs)
        p == CHOOSE q \in Perms(Len(d)) :
                \A i \in 1 .. Len(d) - 1 :
                    d[q[i]] < d[q[i + 1]] \/ (d[q[i]] = d[q[i + 1]] /\ q[i] < q[i + 1])
    IN  [knn EXCEPT !.fit_X = Take(knn.fit_X, p), !.y = Take(knn.y, p)]

\* The classifier after a predict call: predict reads the fitted data and
\* writes none of it.
knn_after_predict(knn, obs) == knn

\* knn_spec.predict(new_obs)
PredictOne ==
    /\ knn_spec.state = "fitted"
    /\ IF kneighbors_ok(knn_spec)
       THEN \E nb \in kneighbors_results(knn_spec, new_obs) :
               /\ neigh_ind[new_obs] \in {NoNeighbours, Returned(nb)}
               /\ neigh_ind' = [neigh_ind EXCEPT ![new_obs] = Returned(nb)]
               /\ new_obs_pred' =
                    Returned(<<predict_row(knn_spec, nb, <<new_obs>>, 1, <<"?">>)>>)
       ELSE /\ new_obs_pred' = Raised(ValueError)
            /\ UNCHANGED neigh_ind
    /\ knn_spec' = knn_after_predict(knn_spec, new_obs)
    /\ UNCHANGED <<cancer, K, nearest_vars, y_pred, knnPredGrid, scale_vars, other_vars>>

\* (an array returned in the reverse order of the rows)
predict_result_reversed(labels) ==
    IF \A i \in DOMAIN labels : labels[i] # "?"
    THEN Returned([i \in DOMAIN labels |-> labels[Len(labels) + 1 - i]])
    ELSE Unset

\* The array predict returns once every row is labelled.
predict_result(labels) ==
    IF \A i \in DOMAIN labels : labels[i] # "?" THEN Returned(labels) ELSE Unset

\* knn_spec.predict(pcgrid): the rows are labelled one at a time, in
\* an order the library chooses; the call returns when the last one is.
PredictRow(i) ==
    /\ knn_spec.state = "fitted"
    /\ kneighbors_ok(knn_spec)
    /\ y_pred[i] = "?"
    /\ \E nb \in kneighbors_results(knn_spec, pcgrid[i]) :
          /\ neigh_ind[pcgrid[i]] \in {NoNeighbours, Returned(nb)}
          /\ neigh_ind' = [neigh_ind EXCEPT ![pcgrid[i]] = Returned(nb)]
          /\ y_pred' = [y_pred EXCEPT
                          ![i] = predict_row(knn_spec, nb, pcgrid, i, y_pred)]
    /\ knnPredGrid' = predict_result(y_pred')
    /\ knn_spec' = knn_after_predict(knn_spec, pcgrid[i])
    /\ UNCHANGED <<cancer, K, nearest_vars, new_obs_pred, scale_vars, other_vars>>

\* knn_spec.predict(pcgrid) raises when kneighbors does.
PredictRaise ==
    /\ knn_spec.state = "fitted"
    /\ ~ kneighbors_ok(knn_spec)
    /\ knnPredGrid' = Raised(ValueError)
    /\ UNCHANGED <<cancer, K, nearest_vars, knn_spec, neigh_ind, new_obs_pred, y_pred,
                   scale_vars, other_vars>>

-----------------------------------------------------------------------------
(* The preprocessor and the pipeline *)

\* preprocessor.fit(unscaled_cancer)
PreprocessorFit ==
    /\ preprocessor.state = "new"
    /\ preprocessor' = preprocessor_fit(preprocessor, unscaled_cancer)
    /\ UNCHANGED <<cancer, K, nearest_vars, knn_vars, unscaled_cancer, scaled_cancer, Xt,
                   prediction, other_vars>>

\* scaled_cancer = preprocessor.transform(unscaled_cancer)
PreprocessorTransform ==
    /\ IF preprocessor.state = "fitted"
       THEN /\ scaled_cancer' =
                 Returned(preprocessor_transform(preprocessor, unscaled_cancer))
            /\ preprocessor' = preprocessor_after_transform(preprocessor, unscaled_cancer)
       ELSE /\ scaled_cancer' = Raised(NotFittedError)
            /\ UNCHANGED preprocessor
    /\ UNCHANGED <<cancer, K, nearest_vars, knn_vars, unscaled_cancer, Xt, prediction,
                   other_vars>>

\* knn_fit = make_pipeline(preprocessor, knn_spec).fit(X=..., y=...): the
\* pipeline fits the preprocessor, transforms X with it and fits knn_spec on
\* the transformed table; it holds the two objects themselves, not copies.
PipelineFit ==
    /\ knn_spec.state = "new"
    /\ LET pre == preprocessor_fit(preprocessor, unscaled_cancer)
       IN  /\ preprocessor' = preprocessor_after_transform(pre, unscaled_cancer)
           /\ knn_spec' = fit(knn_spec, preprocessor_transform(pre, unscaled_cancer),
                              y_of(unscaled_cancer))
    /\ UNCHANGED <<cancer, K, nearest_vars, grid_vars, unscaled_cancer, scaled_cancer, Xt,
                   prediction, other_vars>>

\* prediction = knn_fit.predict(new_observation): the pipeline transforms
\* new_observation with the fitted preprocessor and hands the result to
\* knn_spec.predict.
PipelinePredict ==
    /\ knn_spec.state = "fitted"
    /\ prediction = Unset
    /\ LET X == pipeline_transform(preprocessor, new_observation)
       IN  /\ Xt' = Returned(X)
           /\ preprocessor' = preprocessor_after_transform(preprocessor, new_observation)
           /\ knn_spec' = knn_after_predict(knn_spec, X[1])
           /\ IF kneighbors_ok(knn_spec)
              THEN \E nbs \in kneighbors_of_rows(knn_spec, X, Len(X)) :
                      /\ prediction' =
                           Returned([i \in DOMAIN X |->
                                        predict_row(knn_spec, nbs[i], X, i,
                                                    [j \in DOMAIN X |-> "?"])])
              ELSE prediction' = Raised(ValueError)
    /\ UNCHANGED <<cancer, K, nearest_vars, grid_vars, unscaled_cancer, scaled_cancer,
                   other_vars>>

-----------------------------------------------------------------------------
(* The neighbour search: specification *)

\* A table of one row, held by the variable a specification does not use.
one_cancer_row == <<[Perimeter |-> 0, Concavity |-> 0, Class |-> "B"]>>
one_unscaled_row == <<[Area |-> 0, Smoothness |-> 0, Class |-> "B"]>>

InitNearest ==
    /\ cancer \in Tables
    /\ K \in KValues(Len(cancer))
    /\ cancer_dist = Unset
    /\ min_idx = Unset
    /\ knn_spec = KNeighborsClassifier(K)
    /\ neigh_ind = [q \in Points |-> NoNeighbours]
    /\ new_obs_pred = Unset
    /\ y_pred = [i \in DOMAIN pcgrid |-> "?"]
    /\ knnPredGrid = Unset
    /\ unscaled_cancer = one_unscaled_row
    /\ preprocessor = make_column_transformer
    /\ scaled_cancer = Unset
    /\ Xt = Unset
    /\ prediction = Unset
    /\ points = one_cancer_row
    /\ dist_to = Unset
    /\ query_pred = NoQuery
    /\ rare_cancer = rare_cancer_of(cancer)
    /\ upsampled_cancer = [seed \in Seeds |-> <<>>]
    /\ pcgrid_table = Unset
    /\ prediction_table = Unset
    /\ near_neighbor = Unset

SpecNearest == InitNearest /\ [][NearestCell]_vars

SpecPartition == InitNearest /\ [][ArgpartitionCell]_vars

-----------------------------------------------------------------------------
(* The classifier: specification *)

Init == InitNearest

Next ==
    \/ Fit
    \/ PredictOne
    \/ \E i \in DOMAIN pcgrid : PredictRow(i)
    \/ PredictRaise

Spec == Init /\ [][Next]_vars

-----------------------------------------------------------------------------
(* The preprocessor and the pipeline: specification *)

InitPipeline ==
    /\ cancer = one_cancer_row
    /\ unscaled_cancer \in UnscaledTables
    /\ K \in 1 .. Len(unscaled_cancer) + 1
    /\ cancer_dist = Unset
    /\ min_idx = Unset
    /\ knn_spec = KNeighborsClassifier(K)
    /\ neigh_ind = [q \in Points |-> NoNeighbours]
    /\ new_obs_pred = Unset
    /\ y_pred = [i \in DOMAIN pcgrid |-> "?"]
    /\ knnPredGrid = Unset
    /\ preprocessor = make_column_transformer
    /\ scaled_cancer = Unset
    /\ Xt = Unset
    /\ prediction = Unset
    /\ points = one_cancer_row
    /\ dist_to = Unset
    /\ query_pred = NoQuery
    /\ rare_cancer = rare_cancer_of(cancer)
    /\ upsampled_cancer = [seed \in Seeds |-> <<>>]
    /\ pcgrid_table = Unset
    /\ prediction_table = Unset
    /\ near_neighbor = Unset

NextPipeline ==
    \/ PreprocessorFit
    \/ PreprocessorTransform
    \/ PipelineFit
    \/ PipelinePredict

SpecPipeline == InitPipeline /\ [][NextPipeline]_vars

-----------------------------------------------------------------------------
(* Properties of the neighbour search (SpecNearest) *)

\* The squared Euclidean distance of a training row to a point, written out
\* from its definition.
SquaredDistance(row, obs) ==
    (row.Perimeter - obs.Perimeter) * (row.Perimeter - obs.Perimeter)
  + (row.Concavity - obs.Concavity) * (row.Concavity - obs.Concavity)

\* r is row r.idx of the table df, with its distance to new_obs.
IsRowOf(df, r) ==
    /\ r.idx \in 1 .. Len(df)
    /\ r.Perimeter = df[r.idx].Perimeter
    /\ r.Concavity = df[r.idx].Concavity
    /\ r.Class = df[r.idx].Class
    /\ r.dist_from_new = SquaredDistance(df[r.idx], new_obs)

\* The index labels of the rows of a result table.
Kept(r) == { r[i].idx : i \in 1 .. Len(r) }

KInRange == 1 <= K /\ K <= Len(cancer)

\* C1: for 1 <= K <= N the neighbour search returns exactly K distinct rows
\* of the training table, each with its distance to the query, in
\* non-decreasing order of distance, and no row left out is strictly closer
\* to the query than a row returned.
C1_NearestReturnsKClosest ==
    (cancer_dist.status = "ok" /\ KInRange) =>
        LET r == cancer_dist.value
        IN  /\ Len(r) = K
            /\ \A i \in 1 .. Len(r) : IsRowOf(cancer, r[i])
            /\ Cardinality(Kept(r)) = K
            /\ \A i \in 1 .. Len(r) - 1 : r[i].dist_from_new <= r[i + 1].dist_from_new
            /\ \A j \in (1 .. Len(cancer)) \ Kept(r) : \A i \in 1 .. Len(r) :
                   SquaredDistance(cancer[j], new_obs) >= r[i].dist_from_new

\* A search for 2 of 3 rows at three different distances, the nearest row
\* being the last of the table: the sort has moved rows and head has dropped
\* the farthest.
C1_Witness ==
    /\ cancer_dist.status = "ok"
    /\ Len(cancer) = 3
    /\ K = 2
    /\ Len(cancer_dist.value) = 2
    /\ cancer_dist.value[1].idx = 3
    /\ cancer_dist.value[1].dist_from_new < cancer_dist.value[2].dist_from_new
    /\ \E j \in 1 .. 3 :
          SquaredDistance(cancer[j], new_obs) > cancer_dist.value[2].dist_from_new

\* C4 (as stated): of several training rows at the same distance from the
\* query, the row inserted earlier comes first in the result and is selected
\* before a row inserted later.
C4_StableInsertionOrder ==
    cancer_dist.status = "ok" =>
        LET r == cancer_dist.value
        IN  /\ \A i, j \in 1 .. Len(r) :
                 (i < j /\ r[i].dist_from_new = r[j].dist_from_new) => r[i].idx < r[j].idx
            /\ \A i \in 1 .. Len(r) : \A j \in (1 .. Len(cancer)) \ Kept(r) :
                 SquaredDistance(cancer[j], new_obs) = r[i].dist_from_new => r[i].idx < j

\* C4 (amended): for 1 <= K <= N the search returns K rows; every row
\* strictly closer than the K-th returned distance is among them and the
\* other places are taken by rows at exactly the K-th distance, which ones
\* and in which order not being fixed by the order of insertion.
C4_TiesInAnyOrder ==
    (cancer_dist.status = "ok" /\ KInRange) =>
        LET r == cancer_dist.value
            kth == r[Len(r)].dist_from_new
            closer == { j \in 1 .. Len(cancer) : SquaredDistance(cancer[j], new_obs) < kth }
            equal == { j \in 1 .. Len(cancer) : SquaredDistance(cancer[j], new_obs) = kth }
        IN  /\ Len(r) = K
            /\ Cardinality(Kept(r)) = K
            /\ closer \subseteq Kept(r)
            /\ Kept(r) \subseteq closer \cup equal
            /\ Cardinality(Kept(r) \cap equal) = K - Cardinality(closer)

\* A row inserted later is returned and an equidistant row inserted earlier
\* is left out, and two equidistant rows are returned later-inserted first.
C4_Witness ==
    /\ cancer_dist.status = "ok"
    /\ KInRange
    /\ LET r == cancer_dist.value
       IN  /\ \E i \in 1 .. Len(r) : \E j \in (1 .. Len(cancer)) \ Kept(r) :
                /\ SquaredDistance(cancer[j], new_obs) = r[i].dist_from_new
                /\ j < r[i].idx
           /\ \E i, j \in 1 .. Len(r) :
                /\ i < j
                /\ r[i].dist_from_new = r[j].dist_from_new
                /\ r[i].idx > r[j].idx

C5_WitnessZero ==
    /\ cancer_dist.status = "ok"
    /\ K = 0
    /\ Len(cancer_dist.value) = 0

-----------------------------------------------------------------------------
(* Properties of the classifier (Spec) *)

\* The number of rows with label c among the training rows S.
ClassVotes(S, c) == Cardinality({ i \in S : cancer[i].Class = c })

\* The labels with the most votes among S.
TopLabels(S) == { c \in Labels : \A e \in Labels : ClassVotes(S, e) <= ClassVotes(S, c) }

\* S is a set of K nearest training rows of the point q.
IsKNearest(S, q) ==
    /\ S \subseteq 1 .. Len(cancer)
    /\ Cardinality(S) = K
    /\ \A i \in S : \A j \in (1 .. Len(cancer)) \ S :
          SquaredDistance(cancer[i], q) <= SquaredDistance(cancer[j], q)

\* The place of a label in the sorted order of the labels.
ClassRank(c) == CHOOSE i \in DOMAIN LabelOrder : LabelOrder[i] = c

\* C2: the label predict returns for one query is a label whose number of
\* occurrences among the K nearest training rows of the query is maximal.
C2_PredictIsMajorityLabel ==
    new_obs_pred.status = "ok" =>
        LET nb == neigh_ind[new_obs].value
        IN  /\ IsKNearest(nb, new_obs)
            /\ Len(new_obs_pred.value) = 1
            /\ new_obs_pred.value[1] \in TopLabels(nb)

\* Three neighbours, two malignant and one benign, and the prediction is
\* malignant, the second label in sorted order.
C2_Witness ==
    /\ new_obs_pred.status = "ok"
    /\ K = 3
    /\ ClassVotes(neigh_ind[new_obs].value, "M") = 2
    /\ ClassVotes(neigh_ind[new_obs].value, "B") = 1
    /\ new_obs_pred.value = <<"M">>

\* C3 (as stated): when several labels have the most votes, the prediction
\* is the label of the nearest neighbour among those carrying one of them.
C3_TieGoesToNearestNeighbour ==
    (new_obs_pred.status = "ok" /\ Cardinality(TopLabels(neigh_ind[new_obs].value)) > 1) =>
        LET nb == neigh_ind[new_obs].value
            tied == { i \in nb : cancer[i].Class \in TopLabels(nb) }
        IN  \E i \in tied :
               /\ cancer[i].Class = new_obs_pred.value[1]
               /\ \A j \in tied :
                     SquaredDistance(cancer[i], new_obs) <= SquaredDistance(cancer[j], new_obs)

\* C3 (amended): when several labels have the most votes, the prediction is
\* the one of them that comes first in the sorted order of the labels,
\* whatever the distances of the neighbours, and a second prediction for the
\* same query returns the same label.
C3_TieGoesToFirstLabel ==
    (new_obs_pred.status = "ok" /\ Cardinality(TopLabels(neigh_ind[new_obs].value)) > 1) =>
        LET nb == neigh_ind[new_obs].value
        IN  /\ new_obs_pred.value[1] \in TopLabels(nb)
            /\ \A c \in TopLabels(nb) : ClassRank(new_obs_pred.value[1]) <= ClassRank(c)
            /\ y_pred[1] \in {"?", new_obs_pred.value[1]}

\* Two neighbours, the nearer one malignant and the farther one benign: the
\* prediction is benign, and the same query in the grid got the same label.
C3_Witness ==
    /\ new_obs_pred.status = "ok"
    /\ K = 2
    /\ LET nb == neigh_ind[new_obs].value
       IN  /\ ClassVotes(nb, "M") = 1
           /\ ClassVotes(nb, "B") = 1
           /\ \E i \in nb : \A j \in nb \ {i} :
                 /\ cancer[i].Class = "M"
                 /\ SquaredDistance(cancer[i], new_obs) < SquaredDistance(cancer[j], new_obs)
    /\ new_obs_pred.value = <<"B">>
    /\ y_pred[1] = "B"

\* C6 (as stated): a classifier whose K is outside 1 <= K <= N never gets
\* into a state where it can be queried.
C6_OutOfRangeNeverFitted ==
    knn_spec.state = "fitted" => (1 <= knn_spec.n_neighbors /\ knn_spec.n_neighbors <= Len(cancer))

\* C6 (amended): K <= 0 is rejected by fit, before any prediction; K > N is
\* accepted by fit and rejected by every predict call, so that a classifier
\* with K outside 1 <= K <= N never returns a label.
C6_OutOfRangeNeverPredicts ==
    /\ knn_spec.n_neighbors = K
    /\ K <= 0 => knn_spec.state \in {"new", "fit_raised"}
    /\ K > Len(cancer) =>
          /\ new_obs_pred.status \in {"unset", ValueError}
          /\ knnPredGrid.status \in {"unset", ValueError}
    /\ ~ KInRange =>
          /\ new_obs_pred.status # "ok"
          /\ knnPredGrid.status # "ok"
          /\ \A i \in DOMAIN y_pred : y_pred[i] = "?"

\* A classifier with K = N + 1 has been fitted and both predict calls on it
\* have raised.
C6_Witness ==
    /\ K = Len(cancer) + 1
    /\ knn_spec.state = "fitted"
    /\ new_obs_pred.status = ValueError
    /\ knnPredGrid.status = ValueError

\* A classifier with K = 0 has been rejected by fit.
C6_WitnessZero ==
    /\ K = 0
    /\ knn_spec.state = "fit_raised"

C8_PredictLeavesTrainingSet ==
    [][knn_spec.state = "fitted" =>
          /\ knn_spec' = knn_spec
          /\ cancer' = cancer
          /\ K' = K]_vars

\* Both predict calls have returned on a table whose rows are not stored in
\* the order of their distance to new_obs, and the classifier still holds
\* the table it was fitted on.
C8_Witness ==
    /\ knn_spec.state = "fitted"
    /\ new_obs_pred.status = "ok"
    /\ knnPredGrid.status = "ok"
    /\ Len(cancer) >= 2
    /\ SquaredDistance(cancer[1], new_obs) > SquaredDistance(cancer[2], new_obs)
    /\ knn_spec.fit_X = X_of(cancer)
    /\ knn_spec.y = y_of(cancer)
    /\ knn_spec.n_neighbors = K

\* The labels a query table can carry while it is being labelled.
Labelled == [DOMAIN pcgrid -> Labels \cup {"?"}]

-----------------------------------------------------------------------------
(* Properties of the preprocessor and the pipeline (SpecPipeline) *)

\* Of column c of the fit table: the number of values, their sum, and
\* N * N times their variance.
FitN == Len(unscaled_cancer)
FitSum(c) == SumTo([i \in 1 .. FitN |-> unscaled_cancer[i][c]], FitN)
FitSumSq(c) ==
    SumTo([i \in 1 .. FitN |-> unscaled_cancer[i][c] * unscaled_cancer[i][c]], FitN)
FitVar(c) == FitN * FitSumSq(c) - FitSum(c) * FitSum(c)

\* The standardized value s = num / sqrt(rad) is (v - mean) / stddev for the
\* mean FitSum / FitN and the standard deviation sqrt(FitVar) / FitN of
\* column c of the fit table:
\*   num / sqrt(rad) = (FitN * v - FitSum) / sqrt(FitVar),
\* two numbers of the same sign with equal squares.
IsStandardized(s, v, c) ==
    /\ s.rad > 0
    /\ s.num * s.num * FitVar(c) = (FitN * v - FitSum(c)) * (FitN * v - FitSum(c)) * s.rad
    /\ s.num * (FitN * v - FitSum(c)) >= 0

\* The mean_ and scale_ the preprocessor holds for column c are the mean and
\* the standard deviation of column c of the fit table (the scale 1 when
\* that standard deviation is zero).
HoldsFitParameters(pre, c) ==
    /\ pre.mean_[c].den > 0
    /\ pre.mean_[c].num * FitN = FitSum(c) * pre.mean_[c].den
    /\ pre.scale_[c].den > 0
    /\ IF FitVar(c) > 0
       THEN pre.scale_[c].rad * FitN * FitN
               = FitVar(c) * pre.scale_[c].den * pre.scale_[c].den
       ELSE pre.scale_[c].rad = pre.scale_[c].den * pre.scale_[c].den

\* C10: the fitted preprocessor holds, for every column, the mean and the
\* standard deviation of the fit table, before and after every transform
\* call; and for every column whose standard deviation is not zero, every
\* transformed value - of the fit table, of the table the classifier is
\* fitted on, of the new observations - is (v - mean) / stddev with the mean
\* and the standard deviation of the fit table.
C10_TransformUsesFitParameters ==
    \A c \in ScaledColumns :
        /\ preprocessor.state = "fitted" => HoldsFitParameters(preprocessor, c)
        /\ FitVar(c) > 0 =>
            /\ scaled_cancer.status = "ok" =>
                  /\ Len(scaled_cancer.value) = FitN
                  /\ \A i \in 1 .. FitN :
                        IsStandardized(scaled_cancer.value[i][c], unscaled_cancer[i][c], c)
            /\ (knn_spec.state = "fitted" /\ preprocessor.state = "fitted") =>
                  /\ Len(knn_spec.fit_X) = FitN
                  /\ \A i \in 1 .. FitN :
                        IsStandardized(knn_spec.fit_X[i][c], unscaled_cancer[i][c], c)
            /\ Xt.status = "ok" =>
                  /\ Len(Xt.value) = Len(new_observation)
                  /\ \A i \in DOMAIN new_observation :
                        IsStandardized(Xt.value[i][c], new_observation[i][c], c)

\* Both columns of the fit table vary, no new observation is a row of the
\* fit table, the new observations have other column sums than the fit
\* table, and the fit table and the new observations have been transformed.
C10_Witness ==
    /\ \A c \in ScaledColumns : FitVar(c) > 0
    /\ FitN = 3
    /\ \A i \in 1 .. FitN : \A j \in DOMAIN new_observation :
          \E c \in ScaledColumns : unscaled_cancer[i][c] # new_observation[j][c]
    /\ \E c \in ScaledColumns :
          FitSum(c) * Len(new_observation)
              # FitN * SumTo(column(new_observation, c), Len(new_observation))
    /\ preprocessor.state = "fitted"
    /\ scaled_cancer.status = "ok"
    /\ Xt.status = "ok"
    /\ prediction.status = "ok"
    /\ \E i \in DOMAIN new_observation : \E c \in ScaledColumns : Xt.value[i][c].num # 0

-----------------------------------------------------------------------------
(* Properties of the standardized table (SpecPipeline) *)

\* The sum of the numerators, and of their squares, of column c of a
\* standardized table.
NumSum(X, c) == SumTo([i \in 1 .. Len(X) |-> X[i][c].num], Len(X))
NumSumSq(X, c) == SumTo([i \in 1 .. Len(X) |-> X[i][c].num * X[i][c].num], Len(X))

\* Column c of the standardized table X has mean 0 and (population) standard
\* deviation 1.  Its values num / sqrt(rad) share their radicand, so the
\* mean is sum(num) / (n * sqrt(rad)) and, the mean being 0, the variance is
\* sum(num * num) / (n * rad).
HasMeanZeroStdOne(X, c) ==
    /\ NumSum(X, c) = 0
    /\ \A i \in 1 .. Len(X) : X[i][c].rad = X[1][c].rad /\ X[i][c].rad > 0
    /\ NumSumSq(X, c) = Len(X) * X[1][c].rad

\* C11: fit followed by transform of the same table gives, for every column
\* whose values are not all equal, a column of mean 0 and standard
\* deviation 1; so does the table the pipeline fits the classifier on.
C11_FitTransformStandardizes ==
    \A c \in ScaledColumns :
        FitVar(c) > 0 =>
            /\ scaled_cancer.status = "ok" =>
                  /\ Len(scaled_cancer.value) = FitN
                  /\ HasMeanZeroStdOne(scaled_cancer.value, c)
            /\ (knn_spec.state = "fitted" /\ preprocessor.state = "fitted") =>
                  HasMeanZeroStdOne(knn_spec.fit_X, c)

\* A table of three rows whose columns both vary, and vary differently, has
\* been fitted and transformed.
C11_Witness ==
    /\ scaled_cancer.status = "ok"
    /\ FitN = 3
    /\ \A c \in ScaledColumns : FitVar(c) > 0
    /\ FitSum("Area") # FitSum("Smoothness")
    /\ \A i \in 1 .. FitN : scaled_cancer.value[i]["Area"].num # 0

\* The standardized value s = num / sqrt(rad) is the number v - mean, for
\* the mean FitSum / FitN of column c of the fit table: the radicand is a
\* square, den * den, and num / den = (FitN * v - FitSum) / FitN.
IsCentredOnly(s, v, c) ==
    \E den \in 1 .. FitN :
        /\ s.rad = den * den
        /\ s.num * FitN = (FitN * v - FitSum(c)) * den

\* C12 (as stated): for a column whose standard deviation in the fit table
\* is zero, every transformed value is exactly 0 (or the transform has
\* failed and returned nothing).
C12_DegenerateColumnYieldsZero ==
    \A c \in ScaledColumns :
        FitVar(c) = 0 =>
            /\ scaled_cancer.status = "ok" =>
                  \A i \in 1 .. FitN : scaled_cancer.value[i][c].num = 0
            /\ Xt.status = "ok" =>
                  \A i \in DOMAIN new_observation : Xt.value[i][c].num = 0

\* C12 (amended): for a column whose standard deviation in the fit table is
\* zero, transform does not fail and does not divide by zero: it divides by
\* 1, so that every value v becomes v - mean, which is 0 for every value of
\* the fit table and is not 0 for a new value other than the column's
\* constant.
C12_DegenerateColumnIsCentred ==
    \A c \in ScaledColumns :
        FitVar(c) = 0 =>
            /\ scaled_cancer.status \in {"unset", "ok", NotFittedError}
            /\ (preprocessor.state = "new") \/ (scaled_cancer.status # "ok")
                  \/ \A i \in 1 .. FitN :
                        /\ IsCentredOnly(scaled_cancer.value[i][c], unscaled_cancer[i][c], c)
                        /\ scaled_cancer.value[i][c].num = 0
            /\ Xt.status \in {"unset", "ok"}
            /\ Xt.status = "ok" =>
                  \A i \in DOMAIN new_observation :
                     /\ IsCentredOnly(Xt.value[i][c], new_observation[i][c], c)
                     /\ (Xt.value[i][c].num = 0) <=> (new_observation[i][c] = unscaled_cancer[1][c])

\* The Area column of a fit table of two rows or more is constant, the fit
\* table has been transformed to zeros in that column, and a new
\* observation with another Area has been transformed to a value that is
\* not zero.
C12_Witness ==
    /\ FitN >= 2
    /\ FitVar("Area") = 0
    /\ scaled_cancer.status = "ok"
    /\ \A i \in 1 .. FitN : scaled_cancer.value[i]["Area"].num = 0
    /\ Xt.status = "ok"
    /\ \E i \in DOMAIN new_observation :
          /\ new_observation[i]["Area"] # unscaled_cancer[1]["Area"]
          /\ Xt.value[i]["Area"].num # 0

-----------------------------------------------------------------------------
(* The distance formula between any two observations *)

Features == 0 .. MaxFeature

\* Observations with two and with three predictors.
Points2 == [Perimeter : Features, Concavity : Features]
Points3 == [Perimeter : Features, Concavity : Features, Symmetry : Features]

\* (a distance that looks at the Perimeter column alone)
dist_from_new2_perimeter(row, obs) ==
    (row.Perimeter - obs.Perimeter) * (row.Perimeter - obs.Perimeter)

\* The radicand of the distance with three predictors.
dist_from_new2(row, obs) ==
    (row.Perimeter - obs.Perimeter) * (row.Perimeter - obs.Perimeter)
  + (row.Concavity - obs.Concavity) * (row.Concavity - obs.Concavity)
  + (row.Symmetry - obs.Symmetry) * (row.Symmetry - obs.Symmetry)

\* The dist_from_new column of the table df for the new observation obs,
\* by the formula for the predictors the table has.
dist_column(df, obs) ==
    [i \in 1 .. Len(df) |->
        IF "Symmetry" \in DOMAIN obs THEN dist_from_new2(df[i], obs)
                                     ELSE dist_from_new(df[i], obs)]

\* The distance cell run on the table once for each of its rows as the new
\* observation: dist_to[j][i] is the distance of row i to row j.
DistanceCell ==
    /\ dist_to = Unset
    /\ dist_to' = Returned([j \in 1 .. Len(points) |-> dist_column(points, points[j])])
    /\ UNCHANGED <<cancer, K, nearest_vars, knn_vars, scale_vars, points, query_pred,
                   resample_vars, table_vars,
                   near_neighbor>>

InitDistance ==
    /\ points \in [1 .. 3 -> Points2] \cup [1 .. 3 -> Points3]
    /\ dist_to = Unset
    /\ query_pred = NoQuery
    /\ cancer = one_cancer_row
    /\ rare_cancer = rare_cancer_of(cancer)
    /\ upsampled_cancer = [seed \in Seeds |-> <<>>]
    /\ pcgrid_table = Unset
    /\ prediction_table = Unset
    /\ near_neighbor = Unset
    /\ K = 1
    /\ cancer_dist = Unset
    /\ min_idx = Unset
    /\ knn_spec = KNeighborsClassifier(K)
    /\ neigh_ind = [q \in Points |-> NoNeighbours]
    /\ new_obs_pred = Unset
    /\ y_pred = [i \in DOMAIN pcgrid |-> "?"]
    /\ knnPredGrid = Unset
    /\ unscaled_cancer = one_unscaled_row
    /\ preprocessor = make_column_transformer
    /\ scaled_cancer = Unset
    /\ Xt = Unset
    /\ prediction = Unset

SpecDistance == InitDistance /\ [][DistanceCell]_vars

-----------------------------------------------------------------------------
(* Properties of the distance (SpecDistance) *)

\* sqrt(x) <= sqrt(y) + sqrt(z) for radicands x, y, z >= 0: squaring twice,
\* x - y - z <= 2 * sqrt(y * z), which holds when the left side is not
\* positive or its square is at most 4 * y * z.
SqrtLeqSum(x, y, z) ==
    \/ x - y - z <= 0
    \/ (x - y - z) * (x - y - z) <= 4 * y * z

\* C13: the distance between observations is non-negative and symmetric,
\* is zero exactly when the two observations are equal in every predictor,
\* and obeys the triangle inequality.
C13_DistanceIsAMetric ==
    dist_to.status = "ok" =>
        LET d == dist_to.value
            n == Len(points)
        IN  /\ DOMAIN d = 1 .. n
            /\ \A i, j \in 1 .. n :
                  /\ d[j][i] >= 0
                  /\ d[j][i] = d[i][j]
                  /\ (d[j][i] = 0) <=> (points[i] = points[j])
            /\ \A i, j, k \in 1 .. n : SqrtLeqSum(d[k][i], d[j][i], d[k][j])

\* Three different observations with three predictors, the squared distance
\* from the first to the third larger than the two other squared distances
\* together, and the distances not on one line.
C13_Witness ==
    /\ dist_to.status = "ok"
    /\ "Symmetry" \in DOMAIN points[1]
    /\ LET d == dist_to.value
       IN  /\ d[3][1] > d[2][1] + d[3][2]
           /\ d[2][1] > 0
           /\ d[3][2] > 0
           /\ (d[3][1] - d[2][1] - d[3][2]) * (d[3][1] - d[2][1] - d[3][2])
                 < 4 * d[2][1] * d[3][2]
           /\ points[1].Symmetry # points[2].Symmetry

-----------------------------------------------------------------------------
(* predict on observations of any shape *)

\* A one-row table handed to predict: its cells by column, and the columns
\* whose cell is a text, not a number (the value recorded for such a cell
\* stands for no number).
Observation(obs, text) == [obs |-> obs, text |-> text]

\* Observations for knn_spec.predict: new_obs, new_obs with one column more,
\* with one column less, and with a text in a column.
KnnQueries ==
    { Observation(new_obs, {}),
      Observation([Perimeter |-> 1, Concavity |-> 0, Symmetry |-> 1], {}),
      Observation([Perimeter |-> 1], {}),
      Observation(new_obs, {"Concavity"}) }

\* Observations for knn_fit.predict: the first new observation, the same
\* with one column more, with one column less, and with a text in a column.
PipelineQueries ==
    { Observation(new_observation[1], {}),
      Observation([Area |-> 1, Smoothness |-> 0, Symmetry |-> 1], {}),
      Observation([Area |-> 1], {}),
      Observation(new_observation[1], {"Smoothness"}) }

\* (a predict that keeps the columns it knows of an observation with more
\* columns, and reads a text as the number recorded for it)
validate_data_lenient(knn, q) == DOMAIN knn.fit_X[1] \subseteq DOMAIN q.obs

\* The input validation of knn_spec.predict: the observation has the
\* columns the classifier was fitted on, no more and no less, and all its
\* cells are numbers; otherwise predict raises ValueError.
validate_data(knn, q) ==
    /\ DOMAIN q.obs = DOMAIN knn.fit_X[1]
    /\ q.text = {}

\* The outcomes of knn_spec.predict on a one-row table; a classifier whose
\* fit raised is not fitted, and predict raises NotFittedError.
knn_predict(knn, q) ==
    IF knn.state # "fitted"
    THEN { Raised(NotFittedError) }
    ELSE IF validate_data(knn, q) /\ kneighbors_ok(knn)
         THEN { Returned(<<predict_label(knn, nb)>>) :
                    nb \in kneighbors_results(knn,
                              [c \in DOMAIN knn.fit_X[1] |-> q.obs[c]]) }
         ELSE { Raised(ValueError) }

\* knn_spec.predict(q), after knn_spec.fit: the notebook predicts through
\* knn_fit once it has fitted the pipeline.
PredictQuery ==
    /\ knn_spec.state \in {"fitted", "fit_raised"}
    /\ preprocessor.state = "new"
    /\ \E q \in KnnQueries : \E r \in knn_predict(knn_spec, q) :
          query_pred' = [via |-> "knn_spec", query |-> q, result |-> r]
    /\ UNCHANGED <<cancer, K, nearest_vars, knn_vars, scale_vars, points, dist_to,
                   resample_vars, table_vars,
                   near_neighbor>>

\* The column transformer's check of a table handed to transform: the
\* columns it was fitted on are all there (other columns are dropped), and
\* their cells are numbers; otherwise transform raises ValueError.
transform_ok(q) ==
    /\ ScaledColumns \subseteq DOMAIN q.obs
    /\ q.text \cap ScaledColumns = {}

\* The outcomes of knn_fit.predict on a one-row table: the preprocessor's
\* transform, then knn_spec.predict on the array it returns.
pipeline_predict(pre, knn, q) ==
    IF transform_ok(q) /\ kneighbors_ok(knn)
    THEN { Returned(<<predict_label(knn, nb)>>) :
               nb \in kneighbors_results(knn, preprocessor_transform(pre, <<q.obs>>)[1]) }
    ELSE { Raised(ValueError) }

\* knn_fit.predict(q)
PipelinePredictQuery ==
    /\ knn_spec.state = "fitted"
    /\ preprocessor.state = "fitted"
    /\ \E q \in PipelineQueries : \E r \in pipeline_predict(preprocessor, knn_spec, q) :
          query_pred' = [via |-> "knn_fit", query |-> q, result |-> r]
    /\ UNCHANGED <<cancer, K, nearest_vars, knn_vars, scale_vars, points, dist_to,
                   resample_vars, table_vars,
                   near_neighbor>>

\* Either table is drawn, the other one held at one row.
InitQuery ==
    /\ \/ cancer \in Tables /\ unscaled_cancer = one_unscaled_row
       \/ cancer = one_cancer_row /\ unscaled_cancer \in UnscaledTables
    /\ K \in KValues(Len(cancer) + Len(unscaled_cancer) - 1)
    /\ cancer_dist = Unset
    /\ min_idx = Unset
    /\ knn_spec = KNeighborsClassifier(K)
    /\ neigh_ind = [q \in Points |-> NoNeighbours]
    /\ new_obs_pred = Unset
    /\ y_pred = [i \in DOMAIN pcgrid |-> "?"]
    /\ knnPredGrid = Unset
    /\ preprocessor = make_column_transformer
    /\ scaled_cancer = Unset
    /\ Xt = Unset
    /\ prediction = Unset
    /\ points = one_cancer_row
    /\ dist_to = Unset
    /\ query_pred = NoQuery
    /\ rare_cancer = rare_cancer_of(cancer)
    /\ upsampled_cancer = [seed \in Seeds |-> <<>>]
    /\ pcgrid_table = Unset
    /\ prediction_table = Unset
    /\ near_neighbor = Unset

NextQuery ==
    \/ Fit
    \/ PredictQuery
    \/ PipelineFit
    \/ PipelinePredictQuery

SpecQuery == InitQuery /\ [][NextQuery]_vars

-----------------------------------------------------------------------------
(* Properties of predict on observations of any shape (SpecQuery) *)

\* The columns the classifier was fitted on.
FittedColumns == IF knn_spec.state = "fitted" THEN DOMAIN knn_spec.fit_X[1] ELSE {}

\* The observation q without the columns the preprocessor was not fitted on.
WithoutExtraColumns(q) == Observation([c \in ScaledColumns |-> q.obs[c]], q.text)

\* C14 (as stated): a predict call on an observation that has more or fewer
\* columns than the classifier was fitted on fails.
C14_WrongLengthFails ==
    (query_pred.via # "none"
        /\ Cardinality(DOMAIN query_pred.query.obs) # Cardinality(FittedColumns))
    => query_pred.result.status # "ok"

\* C14 (amended): knn_spec.predict, once fitted, fails with ValueError on an
\* observation whose columns are not those it was fitted on; knn_fit.predict fails with
\* ValueError on an observation that lacks a column the preprocessor was
\* fitted on, and on an observation with more columns it drops the columns
\* it does not know and returns what it returns without them.
C14_ExtraColumnsDroppedByPipeline ==
    LET q == query_pred.query
    IN  /\ (query_pred.via = "knn_spec" /\ knn_spec.state = "fitted"
                /\ DOMAIN q.obs # FittedColumns)
              => query_pred.result = Raised(ValueError)
        /\ (query_pred.via = "knn_fit" /\ ~ (ScaledColumns \subseteq DOMAIN q.obs))
              => query_pred.result = Raised(ValueError)
        /\ (query_pred.via = "knn_fit" /\ ScaledColumns \subseteq DOMAIN q.obs)
              => query_pred.result
                    \in pipeline_predict(preprocessor, knn_spec, WithoutExtraColumns(q))

\* knn_fit.predict on an observation with the Symmetry column besides Area
\* and Smoothness has returned the label "M", on a fit table with both
\* labels.
C14_Witness ==
    /\ query_pred.via = "knn_fit"
    /\ DOMAIN query_pred.query.obs = {"Area", "Smoothness", "Symmetry"}
    /\ query_pred.result = Returned(<<"M">>)
    /\ \E i \in 1 .. Len(unscaled_cancer) : unscaled_cancer[i].Class = "B"

\* knn_spec.predict on an observation with the Symmetry column besides
\* Perimeter and Concavity has raised, for a K in range.
C14_WitnessDirect ==
    /\ query_pred.via = "knn_spec"
    /\ DOMAIN query_pred.query.obs = {"Perimeter", "Concavity", "Symmetry"}
    /\ KInRange
    /\ query_pred.result = Raised(ValueError)

-----------------------------------------------------------------------------
(* Upsampling the Malignant rows of rare_cancer (SpecResample) *)

\* How many times the upsampling cell is run with one random_state.
MaxRuns == 2

\* (a resample whose n_samples is left out: the table itself; a resample
\* that draws nothing from a table without rows instead of raising)
resample_all(df, n) == {Returned(df)}
resample_lenient(df, n) ==
    IF n = 0
    THEN {Returned(<<>>), Raised(ValueError)}
    ELSE IF Len(df) = 0
         THEN {Returned(<<>>)}
         ELSE {Returned(Take(df, idx)) : idx \in [1 .. n -> 1 .. Len(df)]}

\* sklearn.utils.resample(df, n_samples=n, random_state=seed): n rows of df,
\* each drawn with replacement at an index the generator seeded with seed
\* produces; which indices a seed produces is left open here. Drawing from
\* a table without rows raises ValueError; asking for no rows raises
\* ValueError or returns a table without rows, depending on the library
\* version.
resample(df, n) ==
    IF n = 0
    THEN {Returned(<<>>), Raised(ValueError)}
    ELSE IF Len(df) = 0
         THEN {Raised(ValueError)}
         ELSE {Returned(Take(df, idx)) : idx \in [1 .. n -> 1 .. Len(df)]}

\* (an upsampling cell that resamples the Benign rows instead)
upsampled_results_swapped(df) ==
    LET malignant_cancer == with_class(df, "Malignant")
        benign_cancer    == with_class(df, "Benign")
    IN  { IF r.status = "ok" THEN Returned(r.value \o malignant_cancer) ELSE r :
          r \in resample(benign_cancer, Len(malignant_cancer)) }

\* The upsampling cell: the Malignant rows resampled to the number of Benign
\* rows, followed by the Benign rows.
upsampled_results(df) ==
    LET malignant_cancer == with_class(df, "Malignant")
        benign_cancer    == with_class(df, "Benign")
    IN  { IF r.status = "ok" THEN Returned(r.value \o benign_cancer) ELSE r :
          r \in resample(malignant_cancer, Len(benign_cancer)) }

\* (a generator that is not seeded: a later run is free to draw differently)
seeded_free(runs, r) == TRUE

\* random_state=seed builds the generator anew from the seed at every run:
\* a later run with the same seed draws what the earlier runs drew.
seeded(runs, r) == \A i \in DOMAIN runs : runs[i] = r

\* (an upsampling that writes its result over the table it read)
rare_cancer_overwritten(df, r) == IF r.status = "ok" THEN r.value ELSE df

\* rare_cancer after the cell: the row selections, resample and pd.concat
\* each return a new frame and write nothing to the one they read.
rare_cancer_after_upsample(df, r) == df

\* Whether resample raises is settled by its arguments and the library
\* version, which is one and the same in all the runs.
same_library(r) ==
    \A s \in Seeds : \A i \in DOMAIN upsampled_cancer[s] :
        upsampled_cancer[s][i].status = r.status

\* One run of the upsampling cell with random_state=seed.
UpsampleCell(seed) ==
    /\ Len(upsampled_cancer[seed]) < MaxRuns
    /\ \E r \in upsampled_results(rare_cancer) :
          /\ seeded(upsampled_cancer[seed], r)
          /\ same_library(r)
          /\ upsampled_cancer' =
                 [upsampled_cancer EXCEPT ![seed] = Append(@, r)]
          /\ rare_cancer' = rare_cancer_after_upsample(rare_cancer, r)
    /\ UNCHANGED <<cancer, K, nearest_vars, knn_vars, scale_vars,
                   points, dist_to, query_pred, table_vars, near_neighbor>>

\* The most rows of a table that is thinned out and upsampled.
MaxRare == 5

\* The tables read at the start of the cell that builds rare_cancer: rows
\* that differ in Perimeter and Class, kept in one order; the file may hold
\* no row at all.
RareSources ==
    UNION { { t \in [1 .. n -> {r \in Rows : r.Concavity = 0}] :
                \A i \in 1 .. n - 1 : RowKey(t[i]) <= RowKey(t[i + 1]) } :
            n \in 0 .. MaxRare }

InitResample ==
    /\ cancer \in RareSources
    /\ K = 1
    /\ cancer_dist = Unset
    /\ min_idx = Unset
    /\ knn_spec = KNeighborsClassifier(K)
    /\ neigh_ind = [q \in Points |-> NoNeighbours]
    /\ new_obs_pred = Unset
    /\ y_pred = [i \in DOMAIN pcgrid |-> "?"]
    /\ knnPredGrid = Unset
    /\ unscaled_cancer = one_unscaled_row
    /\ preprocessor = make_column_transformer
    /\ scaled_cancer = Unset
    /\ Xt = Unset
    /\ prediction = Unset
    /\ points = one_cancer_row
    /\ dist_to = Unset
    /\ query_pred = NoQuery
    /\ rare_cancer = rare_cancer_of(cancer)
    /\ upsampled_cancer = [seed \in Seeds |-> <<>>]
    /\ pcgrid_table = Unset
    /\ prediction_table = Unset
    /\ near_neighbor = Unset

NextResample == \E seed \in Seeds : UpsampleCell(seed)

SpecResample == InitResample /\ [][NextResample]_vars

-----------------------------------------------------------------------------
(* Properties of the upsampling cell (SpecResample) *)

\* The number of rows of df with that label.
class_count(df, label) == Len(with_class(df, label))

\* The size of the largest class of df.
largest_class(df) ==
    IF class_count(df, "Malignant") >= class_count(df, "Benign")
    THEN class_count(df, "Malignant")
    ELSE class_count(df, "Benign")

HasBothLabels == class_count(rare_cancer, "Malignant") > 0
                 /\ class_count(rare_cancer, "Benign") > 0

\* The outcomes of the runs of the upsampling cell so far.
UpsampleRuns == UNION { Range(upsampled_cancer[seed]) : seed \in Seeds }

C15_WitnessMalignantLarger ==
    /\ class_count(rare_cancer, "Benign") > 0
    /\ class_count(rare_cancer, "Malignant") > class_count(rare_cancer, "Benign")
    /\ UpsampleRuns # {}

\* The rows of the class of df that has fewer rows than the other class.
minority_rows(df) ==
    IF class_count(df, "Malignant") < class_count(df, "Benign")
    THEN Range(with_class(df, "Malignant"))
    ELSE IF class_count(df, "Benign") < class_count(df, "Malignant")
         THEN Range(with_class(df, "Benign"))
         ELSE {}

\* C16: every row of the minority class of rare_cancer is a row of the
\* upsampled table, whatever the random_state.
C16_EveryMinorityRowKept ==
    \A seed \in Seeds :
        \A i \in DOMAIN upsampled_cancer[seed] :
            upsampled_cancer[seed][i].status = "ok" =>
                minority_rows(rare_cancer) \subseteq Range(upsampled_cancer[seed][i].value)

C18_FewerThanTwoLabelsFails ==
    ~HasBothLabels =>
        \A r \in UpsampleRuns : r.status = ValueError

\* C18: on a table without Malignant rows that has Benign rows every run of
\* the upsampling cell fails with ValueError; on a table without Benign rows
\* a run fails with ValueError or returns the table without rows, and never
\* returns a table with rows.
C18_NoMalignantFailsNoBenignEmpty ==
    \A r \in UpsampleRuns :
        /\ (class_count(rare_cancer, "Malignant") = 0
            /\ class_count(rare_cancer, "Benign") > 0) => r.status = ValueError
        /\ class_count(rare_cancer, "Benign") = 0 =>
              r \in {Raised(ValueError), Returned(<<>>)}

\* A run failed on a table with Benign rows only.
C18_Witness ==
    /\ class_count(rare_cancer, "Malignant") = 0
    /\ class_count(rare_cancer, "Benign") > 0
    /\ Raised(ValueError) \in UpsampleRuns

\* A run failed on the table without rows.
C18_WitnessNoRows ==
    /\ rare_cancer = <<>>
    /\ Raised(ValueError) \in UpsampleRuns

\* A run returned the table without rows on a table with Malignant rows only.
C18_WitnessEmptyTable ==
    /\ class_count(rare_cancer, "Malignant") > 0
    /\ class_count(rare_cancer, "Benign") = 0
    /\ Returned(<<>>) \in UpsampleRuns

\* The table the classifier was fitted on in the call recorded in query_pred.
TrainingLabels ==
    IF query_pred.via = "knn_fit" THEN Range(y_of(unscaled_cancer))
                                  ELSE Range(y_of(cancer))

TrainingSize ==
    IF query_pred.via = "knn_fit" THEN Len(unscaled_cancer) ELSE Len(cancer)

\* The columns the model of the call recorded in query_pred was fitted on.
TrainingColumns ==
    IF query_pred.via = "knn_fit" THEN ScaledColumns ELSE {"Perimeter", "Concavity"}

\* The call recorded in query_pred returned one label of the training table.
ReturnedTrainingLabel ==
    /\ Len(query_pred.result.value) = 1
    /\ query_pred.result.value[1] \in TrainingLabels

\* C19 (as stated): a predict call returns a label only when the observation
\* has exactly the columns trained on, all its cells are numbers and K is
\* between 1 and the number of training rows; the label is one of the
\* training labels.
C19_BadInputNeverLabelled ==
    query_pred.result.status = "ok" =>
        /\ DOMAIN query_pred.query.obs = TrainingColumns
        /\ query_pred.query.text = {}
        /\ K \in 1 .. TrainingSize
        /\ ReturnedTrainingLabel

\* C19: every predict call fails or returns one label of the training
\* table; it returns a label only when K is between 1 and the number of
\* training rows and the observation holds a number in every column trained
\* on, with no further column when the classifier is called directly; the
\* pipeline does return a label for an observation with further columns.
C19_LabelOrFailure ==
    /\ query_pred.via # "none" =>
          query_pred.result.status \in {"ok", ValueError, NotFittedError}
    /\ query_pred.result.status = "ok" =>
          /\ TrainingColumns \subseteq DOMAIN query_pred.query.obs
          /\ query_pred.via = "knn_spec" =>
                DOMAIN query_pred.query.obs = TrainingColumns
          /\ query_pred.query.text \cap TrainingColumns = {}
          /\ K \in 1 .. TrainingSize
          /\ ReturnedTrainingLabel

\* A predict call failed with K larger than the number of training rows.
C19_Witness ==
    /\ query_pred.via = "knn_spec"
    /\ query_pred.query = Observation(new_obs, {})
    /\ K > Len(cancer)
    /\ query_pred.result = Raised(ValueError)

\* A predict call failed after fit raised on K = 0.
C19_WitnessZero ==
    /\ query_pred.via = "knn_spec"
    /\ K = 0
    /\ query_pred.result = Raised(NotFittedError)

\* A predict call failed on a text in a column trained on.
C19_WitnessText ==
    /\ query_pred.via # "none"
    /\ query_pred.query.text # {}
    /\ K \in 1 .. TrainingSize
    /\ query_pred.result = Raised(ValueError)

\* The pipeline returned a label for an observation with a further column.
C19_WitnessFurtherColumn ==
    /\ query_pred.via = "knn_fit"
    /\ DOMAIN query_pred.query.obs # TrainingColumns
    /\ query_pred.result.status = "ok"

\* A predict call returned M on a table that holds both labels.
C19_WitnessLabel ==
    /\ query_pred.result = Returned(<<"M">>)
    /\ TrainingLabels = {"B", "M"}

-----------------------------------------------------------------------------
(* The worked example: the five nearest neighbours of (0, 3.5) (SpecExample) *)

\* The new observation of the example, Perimeter 0 and Concavity 3.5, in
\* hundredths.
new_obs_example == [Perimeter |-> 0, Concavity |-> 350]

\* The five nearest rows as the notebook tabulates them, in hundredths.
cancer_dist_eq ==
    << [Perimeter |-> 24,   Concavity |-> 265, Class |-> "B"],
       [Perimeter |-> 75,   Concavity |-> 287, Class |-> "M"],
       [Perimeter |-> 62,   Concavity |-> 254, Class |-> "M"],
       [Perimeter |-> 42,   Concavity |-> 231, Class |-> "M"],
       [Perimeter |-> -116, Concavity |-> 404, Class |-> "B"] >>

\* A row of the rest of the table: farther from the new observation than
\* the five.
far_row(r) == [Perimeter |-> 500 + 100 * r.Perimeter,
               Concavity |-> 100 * r.Concavity, Class |-> r.Class]

\* The training tables of the example: the five rows, and any rows farther
\* away.
ExampleTables ==
    { cancer_dist_eq \o [i \in 1 .. Len(t) |-> far_row(t[i])] : t \in Tables \cup {<<>>} }

\* knn_spec.predict(new_obs) for the new observation of the example.
PredictExample ==
    /\ knn_spec.state = "fitted"
    /\ query_pred = NoQuery
    /\ \E r \in knn_predict(knn_spec, Observation(new_obs_example, {})) :
          query_pred' = [via |-> "knn_spec",
                         query |-> Observation(new_obs_example, {}), result |-> r]
    /\ UNCHANGED <<cancer, K, nearest_vars, knn_vars, scale_vars, points, dist_to,
                   resample_vars, table_vars,
                   near_neighbor>>

InitExample ==
    /\ cancer \in ExampleTables
    /\ K = 5
    /\ cancer_dist = Unset
    /\ min_idx = Unset
    /\ knn_spec = KNeighborsClassifier(K)
    /\ neigh_ind = [q \in Points |-> NoNeighbours]
    /\ new_obs_pred = Unset
    /\ y_pred = [i \in DOMAIN pcgrid |-> "?"]
    /\ knnPredGrid = Unset
    /\ unscaled_cancer = one_unscaled_row
    /\ preprocessor = make_column_transformer
    /\ scaled_cancer = Unset
    /\ Xt = Unset
    /\ prediction = Unset
    /\ points = one_cancer_row
    /\ dist_to = Unset
    /\ query_pred = NoQuery
    /\ rare_cancer = rare_cancer_of(cancer)
    /\ upsampled_cancer = [seed \in Seeds |-> <<>>]
    /\ pcgrid_table = Unset
    /\ prediction_table = Unset
    /\ near_neighbor = Unset

NextExample == Fit \/ PredictExample

SpecExample == InitExample /\ [][NextExample]_vars

\* The distance whose square is rad, in hundredths, rounds to r hundredths.
RoundsTo(rad, r) ==
    /\ (2 * r - 1) * (2 * r - 1) <= 4 * rad
    /\ 4 * rad < (2 * r + 1) * (2 * r + 1)

\* The distances of the example as the notebook tabulates them, in hundredths.
ExampleDistances == <<88, 98, 114, 126, 128>>

\* C20: with five training rows labelled B, M, M, M, B at the distances
\* 0.88, 0.98, 1.14, 1.26, 1.28 from the new observation (0, 3.5) as the
\* five nearest and K = 5, predict returns M: three votes for M against two
\* for B.
C20_ExamplePredictsMalignant ==
    /\ \A i \in 1 .. 5 :
          RoundsTo(SquaredDistance(cancer[i], new_obs_example), ExampleDistances[i])
    /\ query_pred.via # "none" =>
          /\ query_pred.result = Returned(<<"M">>)
          /\ \A S \in SUBSET (1 .. Len(cancer)) :
                IsKNearest(S, new_obs_example) =>
                    /\ S = 1 .. 5
                    /\ ClassVotes(S, "M") = 3
                    /\ ClassVotes(S, "B") = 2

\* predict has returned M on a table in which the B rows outnumber the M
\* rows: the vote is among the five nearest rows.
C20_Witness ==
    /\ query_pred.result = Returned(<<"M">>)
    /\ Len(cancer) > 5
    /\ Cardinality({i \in 1 .. Len(cancer) : cancer[i].Class = "B"})
          > Cardinality({i \in 1 .. Len(cancer) : cancer[i].Class = "M"})

-----------------------------------------------------------------------------
(* Odd K and ties of the vote (Spec) *)

\* C21: with the two labels B and M and an odd K, the numbers of B rows and
\* of M rows among the K neighbours of a query differ, so exactly one label
\* has the most votes and the order of the labels decides nothing.
C21_OddKNeverTies ==
    \A q \in Points :
        (neigh_ind[q].status = "ok" /\ K % 2 = 1) =>
            /\ ClassVotes(neigh_ind[q].value, "B") # ClassVotes(neigh_ind[q].value, "M")
            /\ Cardinality(TopLabels(neigh_ind[q].value)) = 1

\* Three neighbours of new_obs, two of them B and one M, and B is predicted.
C21_Witness ==
    /\ K = 3
    /\ new_obs_pred = Returned(<<"B">>)
    /\ ClassVotes(neigh_ind[new_obs].value, "B") = 2
    /\ ClassVotes(neigh_ind[new_obs].value, "M") = 1

\* With an even K the votes can be equal: two neighbours, one B and one M.
C21_WitnessEvenTie ==
    /\ K = 2
    /\ new_obs_pred.status = "ok"
    /\ ClassVotes(neigh_ind[new_obs].value, "B") = 1
    /\ ClassVotes(neigh_ind[new_obs].value, "M") = 1

-----------------------------------------------------------------------------
(* K = 7 on rare_cancer and on upsampled_cancer (SpecUpsampledGrid) *)

\* The most Benign rows of a table the K = 7 classifier is fitted on.
MaxBenign == 4

\* The tables of n rows taken from a set of rows, kept in one order.
rows_from(rows, n) ==
    { t \in [1 .. n -> rows] : \A i \in 1 .. n - 1 : RowKey(t[i]) <= RowKey(t[i + 1]) }

\* The tables read at the start of the cell that builds rare_cancer: some
\* B rows with Concavity 0, and up to four M rows that lie on grid points.
GridSources ==
    { b \o m :
        b \in UNION { rows_from({r \in Rows : r.Concavity = 0 /\ r.Class = "B"}, n) :
                        n \in 1 .. MaxBenign },
        m \in UNION { rows_from({r \in Rows : r.Class = "M"
                                    /\ \E i \in DOMAIN pcgrid :
                                          /\ r.Perimeter = pcgrid[i].Perimeter
                                          /\ r.Concavity = pcgrid[i].Concavity}, n) :
                        n \in 0 .. 4 } }

\* pcgrid with the column Class set to the labels.
with_class_column(grid, labels) ==
    [i \in DOMAIN grid |->
        [Perimeter |-> grid[i].Perimeter, Concavity |-> grid[i].Concavity,
         Class |-> labels[i]]]

\* The outcomes of knn.predict(grid) for a fitted classifier: ValueError when
\* the frame has other columns than the two fitted on or when n_neighbors
\* exceeds the number of fitted rows.
predict_grid(knn, grid) ==
    IF (\A i \in DOMAIN grid : DOMAIN grid[i] = {"Perimeter", "Concavity"})
       /\ kneighbors_ok(knn)
    THEN { Returned([i \in DOMAIN grid |->
                        predict_row(knn, nbs[i], grid, i, [j \in DOMAIN grid |-> "?"])]) :
           nbs \in kneighbors_of_rows(knn, grid, Len(grid)) }
    ELSE { Raised(ValueError) }

\* prediction_table = pcgrid.copy(): a frame of its own with the rows of the
\* grid.
pcgrid_copy(grid) == grid

\* prediction_table = pcgrid; prediction_table["Class"] = knnPredGrid: the
\* two names are one frame, so pcgrid has the column Class afterwards.
pcgrid_after_alias(grid, labels) == with_class_column(grid, labels)

\* (a cell that keeps the classifier it finds)
refit_stale(knn, n, df) == knn

\* knn_spec = KNeighborsClassifier(n_neighbors=n); knn_spec.fit(X=..., y=...):
\* a new classifier fitted on df replaces the one knn_spec named.
refit(knn, n, df) == fit(KNeighborsClassifier(n), X_of(df), y_of(df))

\* The cell that fits K = 7 on rare_cancer, builds pcgrid, predicts it and
\* stores the labels in a copy of pcgrid.
RareGridCell ==
    /\ knn_spec.state = "new"
    /\ LET knn == fit(KNeighborsClassifier(K), X_of(rare_cancer), y_of(rare_cancer))
       IN  /\ knn_spec' = knn
           /\ pcgrid_table' = Returned(pcgrid)
           /\ \E r \in predict_grid(knn, pcgrid) :
                 /\ knnPredGrid' = r
                 /\ prediction_table' =
                        IF r.status = "ok"
                        THEN Returned(with_class_column(pcgrid_copy(pcgrid), r.value))
                        ELSE prediction_table
    /\ UNCHANGED <<cancer, K, nearest_vars, neigh_ind, new_obs_pred, y_pred, scale_vars,
                   points, dist_to, query_pred, resample_vars, near_neighbor>>

\* The cell that fits K = 7 on upsampled_cancer, predicts pcgrid and stores
\* the labels in prediction_table, which it has bound to pcgrid itself.  The
\* cell can be run again.
UpsampledGridCell(seed) ==
    /\ pcgrid_table.status = "ok"
    /\ upsampled_cancer[seed] # <<>>
    /\ upsampled_cancer[seed][Len(upsampled_cancer[seed])].status = "ok"
    /\ upsampled_cancer[seed][Len(upsampled_cancer[seed])].value # <<>>
    /\ LET df  == upsampled_cancer[seed][Len(upsampled_cancer[seed])].value
           knn == refit(knn_spec, K, df)
       IN  /\ knn_spec' = knn
           /\ \E r \in predict_grid(knn, pcgrid_table.value) :
                 /\ knnPredGrid' = r
                 /\ IF r.status = "ok"
                    THEN /\ pcgrid_table' =
                               Returned(pcgrid_after_alias(pcgrid_table.value, r.value))
                         /\ prediction_table' =
                               Returned(with_class_column(pcgrid_table.value, r.value))
                    ELSE UNCHANGED <<pcgrid_table, prediction_table>>
    /\ UNCHANGED <<cancer, K, nearest_vars, neigh_ind, new_obs_pred, y_pred, scale_vars,
                   points, dist_to, query_pred, resample_vars, near_neighbor>>

InitUpsampledGrid ==
    /\ cancer \in GridSources
    /\ K = 7
    /\ cancer_dist = Unset
    /\ min_idx = Unset
    /\ knn_spec = KNeighborsClassifier(K)
    /\ neigh_ind = [q \in Points |-> NoNeighbours]
    /\ new_obs_pred = Unset
    /\ y_pred = [i \in DOMAIN pcgrid |-> "?"]
    /\ knnPredGrid = Unset
    /\ unscaled_cancer = one_unscaled_row
    /\ preprocessor = make_column_transformer
    /\ scaled_cancer = Unset
    /\ Xt = Unset
    /\ prediction = Unset
    /\ points = one_cancer_row
    /\ dist_to = Unset
    /\ query_pred = NoQuery
    /\ rare_cancer = rare_cancer_of(cancer)
    /\ upsampled_cancer = [seed \in Seeds |-> <<>>]
    /\ pcgrid_table = Unset
    /\ prediction_table = Unset
    /\ near_neighbor = Unset

NextUpsampledGrid ==
    \/ RareGridCell
    \/ UpsampleCell(100)
    \/ UpsampledGridCell(100)

SpecUpsampledGrid == InitUpsampledGrid /\ [][NextUpsampledGrid]_vars

-----------------------------------------------------------------------------
(* Properties of K = 7 on rare_cancer and upsampled_cancer (SpecUpsampledGrid) *)

\* knn_spec is the classifier fitted on rare_cancer.
FittedOnRare ==
    /\ knn_spec.state = "fitted"
    /\ knn_spec.fit_X = X_of(rare_cancer)
    /\ knn_spec.y = y_of(rare_cancer)

\* C22: rare_cancer holds at most 3 Malignant rows, and every label the
\* K = 7 classifier fitted on it returns for the grid is Benign, wherever
\* the grid point lies.
C22_RareAlwaysBenign ==
    /\ class_count(rare_cancer, "Malignant") <= 3
    /\ (FittedOnRare /\ knnPredGrid.status = "ok") =>
          /\ class_count(rare_cancer, "Benign") >= 4
          /\ \A i \in DOMAIN knnPredGrid.value : knnPredGrid.value[i] = "Benign"

\* The grid was predicted on a table whose three Malignant rows all lie on
\* the first grid point, and the labels are Benign all the same.
C22_Witness ==
    /\ FittedOnRare
    /\ knnPredGrid.status = "ok"
    /\ class_count(rare_cancer, "Malignant") = 3
    /\ \A i \in DOMAIN rare_cancer :
          rare_cancer[i].Class = "Malignant" =>
              /\ rare_cancer[i].Perimeter = pcgrid[1].Perimeter
              /\ rare_cancer[i].Concavity = pcgrid[1].Concavity
    /\ \A i \in DOMAIN rare_cancer :
          rare_cancer[i].Class = "Benign" => rare_cancer[i].Perimeter # pcgrid[1].Perimeter
    /\ knnPredGrid.value[1] = "Benign"

\* The cell on upsampled_cancer has run to its end: pcgrid carries labels.
UpsampledPredicted ==
    /\ pcgrid_table.status = "ok"
    /\ \A i \in DOMAIN pcgrid_table.value : "Class" \in DOMAIN pcgrid_table.value[i]

\* The table the cell on upsampled_cancer was fitted on.
BalancedTable == upsampled_cancer[100][1].value

\* The number of rows of df with that label that lie on the point q.
rows_on(df, label, q) ==
    Cardinality({ i \in DOMAIN df : /\ df[i].Class = label
                                    /\ df[i].Perimeter = q.Perimeter
                                    /\ df[i].Concavity = q.Concavity })

\* C23 (as stated): once K = 7 is fitted on the upsampled table, a grid
\* point that lies on a Malignant row of that table and on fewer than 4
\* Benign rows is labelled Malignant.
C23_OnMalignantPointIsMalignant ==
    UpsampledPredicted =>
        \A i \in DOMAIN pcgrid :
            (rows_on(BalancedTable, "Malignant", pcgrid[i]) >= 1
                /\ rows_on(BalancedTable, "Benign", pcgrid[i]) < 4)
            => pcgrid_table.value[i].Class = "Malignant"

\* C23: once K = 7 is fitted on the upsampled table, a grid point that lies
\* on at least 4 Malignant rows of that table and on fewer than 4 Benign
\* rows is labelled Malignant; with fewer Malignant copies on the point the
\* label depends on the rows around it.
C23_FourCopiesAreMalignant ==
    UpsampledPredicted =>
        \A i \in DOMAIN pcgrid :
            (rows_on(BalancedTable, "Malignant", pcgrid[i]) >= 4
                /\ rows_on(BalancedTable, "Benign", pcgrid[i]) < 4)
            => pcgrid_table.value[i].Class = "Malignant"

\* A grid point with four Malignant copies and three Benign rows on it is
\* labelled Malignant, where the classifier fitted on rare_cancer said Benign.
C23_Witness ==
    /\ UpsampledPredicted
    /\ rows_on(BalancedTable, "Malignant", pcgrid[1]) >= 4
    /\ rows_on(BalancedTable, "Benign", pcgrid[1]) = 3
    /\ pcgrid_table.value[1].Class = "Malignant"

\* A grid point with one Malignant copy and no Benign row on it is labelled
\* Benign.
C23_WitnessSingleCopy ==
    /\ UpsampledPredicted
    /\ \E i \in DOMAIN pcgrid :
          /\ rows_on(BalancedTable, "Malignant", pcgrid[i]) = 1
          /\ rows_on(BalancedTable, "Benign", pcgrid[i]) = 0
          /\ pcgrid_table.value[i].Class = "Benign"

-----------------------------------------------------------------------------
(* The rows of the upsampled table (SpecResample) *)

\* C24: every row of a table the upsampling returns is, in Perimeter,
\* Concavity and Class, a row of rare_cancer, and rare_cancer is after the
\* runs the table that was built from cancer.
C24_OnlyWholeRowsInputKept ==
    /\ rare_cancer = rare_cancer_of(cancer)
    /\ \A r \in UpsampleRuns :
          r.status = "ok" => Range(r.value) \subseteq Range(rare_cancer)

\* A run returned a table that holds a Malignant row more often than
\* rare_cancer does.
C24_Witness ==
    \E r \in UpsampleRuns :
        /\ r.status = "ok"
        /\ \E row \in Range(rare_cancer) :
              /\ row.Class = "Malignant"
              /\ Cardinality({i \in DOMAIN r.value : r.value[i] = row})
                    > Cardinality({i \in DOMAIN rare_cancer : rare_cancer[i] = row})

-----------------------------------------------------------------------------
(* Repeated neighbour searches (SpecNearest) *)

-----------------------------------------------------------------------------
(* The order of fit, transform and predict in the pipeline (SpecPipeline) *)

\* The square of the scale of column c of the fit table, times FitN * FitN.
FitScaleSq(c) == IF FitVar(c) > 0 THEN FitVar(c) ELSE FitN * FitN

\* The squared distance between a row of the fit table and an observation
\* once both are standardized with the mean and the scale of the fit table,
\* times the product of the two squared scales.
StandardizedDistance(row, obs) ==
    (row.Area - obs.Area) * (row.Area - obs.Area) * FitScaleSq("Smoothness")
  + (row.Smoothness - obs.Smoothness) * (row.Smoothness - obs.Smoothness) * FitScaleSq("Area")

\* S is a set of K rows of the fit table nearest to obs by that distance.
IsKNearestStandardized(S, obs) ==
    /\ S \subseteq 1 .. FitN
    /\ Cardinality(S) = K
    /\ \A i \in S : \A j \in (1 .. FitN) \ S :
          StandardizedDistance(unscaled_cancer[i], obs)
              <= StandardizedDistance(unscaled_cancer[j], obs)

\* The labels with the most rows among the rows S of the fit table.
TopLabelsUnscaled(S) ==
    { c \in Labels : \A e \in Labels :
        Cardinality({ i \in S : unscaled_cancer[i].Class = e })
            <= Cardinality({ i \in S : unscaled_cancer[i].Class = c }) }

\* C26: a transform returns only after the preprocessor is fitted; the
\* classifier of the pipeline is fitted only together with the preprocessor
\* and on the fit table transformed with the parameters the preprocessor
\* holds; a prediction exists only when both are fitted, the observations
\* are transformed with those same parameters, and each label is a majority
\* label of K rows that are nearest when rows and observation are both
\* standardized with the mean and the scale of the fit table.
C26_FitBeforeTransformSameParameters ==
    /\ scaled_cancer.status = "ok" => preprocessor.state = "fitted"
    /\ knn_spec.state = "fitted" =>
          /\ preprocessor.state = "fitted"
          /\ knn_spec.fit_X = preprocessor_transform(preprocessor, unscaled_cancer)
    /\ prediction.status = "ok" =>
          /\ knn_spec.state = "fitted"
          /\ Xt.status = "ok"
          /\ Len(prediction.value) = Len(new_observation)
          /\ \A i \in DOMAIN new_observation :
                /\ \A c \in ScaledColumns :
                      /\ Xt.value[i][c].rad = knn_spec.fit_X[1][c].rad
                      /\ FitVar(c) > 0 =>
                            IsStandardized(Xt.value[i][c], new_observation[i][c], c)
                /\ \E S \in SUBSET (1 .. FitN) :
                      /\ IsKNearestStandardized(S, new_observation[i])
                      /\ prediction.value[i] \in TopLabelsUnscaled(S)

\* The pipeline has predicted with K = 1 on a fit table whose two columns
\* vary: the row nearest to the first new observation once both are
\* standardized is not a row equal to it, a row with the other label lies
\* farther away, and the label is that of the nearest row.
C26_Witness ==
    /\ prediction.status = "ok"
    /\ K = 1
    /\ \A c \in ScaledColumns : FitVar(c) > 0
    /\ \E i, j \in 1 .. FitN :
          /\ unscaled_cancer[i].Class # unscaled_cancer[j].Class
          /\ StandardizedDistance(unscaled_cancer[i], new_observation[1]) > 0
          /\ StandardizedDistance(unscaled_cancer[i], new_observation[1])
                < StandardizedDistance(unscaled_cancer[j], new_observation[1])
          /\ \A k \in 1 .. FitN :
                StandardizedDistance(unscaled_cancer[i], new_observation[1])
                    <= StandardizedDistance(unscaled_cancer[k], new_observation[1])
          /\ prediction.value[1] = unscaled_cancer[i].Class

-----------------------------------------------------------------------------
(* The two neighbour searches side by side (SpecBothSearches) *)

\* The pairs of rows of df at the same distance from new_obs.
equal_distances(df) ==
    { ij \in (1 .. Len(df)) \X (1 .. Len(df)) :
        /\ ij[1] < ij[2]
        /\ dist_from_new(df[ij[1]], new_obs) = dist_from_new(df[ij[2]], new_obs) }

\* The two searches are set side by side on tables with at most one pair of
\* rows at the same distance from new_obs, for K from 1 to the number of
\* rows.
InitBothSearches ==
    /\ InitNearest
    /\ K \in 1 .. Len(cancer)
    /\ Cardinality(equal_distances(cancer)) <= 1

NextBothSearches == NearestCell \/ ArgpartitionCell

SpecBothSearches == InitBothSearches /\ [][NextBothSearches]_vars

\* No two rows of cancer are at the same distance from new_obs.
DistinctDistances ==
    \A i, j \in 1 .. Len(cancer) :
        i # j => SquaredDistance(cancer[i], new_obs) # SquaredDistance(cancer[j], new_obs)

\* C27: when the distances are pairwise distinct and K is smaller than the
\* number of rows, the first K indices of np.argpartition(distances, K) and
\* the first K rows of the table sorted by distance are the same set of
\* rows of cancer.
C27_ArgpartitionAgreesWithSort ==
    (DistinctDistances /\ K < Len(cancer)
        /\ cancer_dist.status = "ok" /\ min_idx.status = "ok")
    => /\ Kept(cancer_dist.value) = Range(min_idx.value)
       /\ Cardinality(Range(min_idx.value)) = K

\* Both searches have returned two of three rows at distinct distances, and
\* the rows are not stored in the order of their distances.
C27_Witness ==
    /\ DistinctDistances
    /\ Len(cancer) = 3
    /\ K = 2
    /\ cancer_dist.status = "ok"
    /\ min_idx.status = "ok"
    /\ SquaredDistance(cancer[1], new_obs) > SquaredDistance(cancer[2], new_obs)

\* With two rows at the same distance the two searches can keep different
\* rows.
C27_WitnessTieDiffers ==
    /\ cancer_dist.status = "ok"
    /\ min_idx.status = "ok"
    /\ K < Len(cancer)
    /\ Kept(cancer_dist.value) # Range(min_idx.value)

-----------------------------------------------------------------------------
(* The three neighbour segments (SpecSegments) *)

\* The tables the segments are drawn on: three or four rows.
SegmentTables ==
    UNION { { t \in [1 .. n -> Rows] :
                \A i \in 1 .. n - 1 : RowKey(t[i]) <= RowKey(t[i + 1]) } :
            n \in 3 .. 4 }

\* np.argmin(d): the first index at which d is smallest.
argmin(d) ==
    CHOOSE i \in DOMAIN d :
        /\ \A j \in DOMAIN d : d[i] <= d[j]
        /\ \A j \in 1 .. i - 1 : d[j] > d[i]

\* The cells that draw line2, line3 and line4: the row of np.argmin, and the
\* rows of min_3_idx[1] and min_3_idx[2] for
\* min_3_idx = np.argpartition(my_distances2, 3)[:3].
SegmentsCell ==
    /\ near_neighbor = Unset
    /\ LET d == my_distances(cancer, new_obs)
       IN  IF argpartition_ok(d, 3)
           THEN \E r \in argpartition_results(d, 3) :
                   /\ same_as_before(min_idx, r)
                   /\ min_idx' = Returned(r)
                   /\ near_neighbor' =
                        Returned([line2 |-> argmin(d), line3 |-> r[2], line4 |-> r[3]])
           ELSE /\ min_idx' = Raised(ValueError)
                /\ near_neighbor' = Raised(ValueError)
    /\ UNCHANGED <<cancer, K, cancer_dist, knn_vars, scale_vars, points, dist_to,
                   query_pred, resample_vars, table_vars>>

InitSegments ==
    /\ cancer \in SegmentTables
    /\ K = 3
    /\ cancer_dist = Unset
    /\ min_idx = Unset
    /\ knn_spec = KNeighborsClassifier(K)
    /\ neigh_ind = [q \in Points |-> NoNeighbours]
    /\ new_obs_pred = Unset
    /\ y_pred = [i \in DOMAIN pcgrid |-> "?"]
    /\ knnPredGrid = Unset
    /\ unscaled_cancer = one_unscaled_row
    /\ preprocessor = make_column_transformer
    /\ scaled_cancer = Unset
    /\ Xt = Unset
    /\ prediction = Unset
    /\ points = one_cancer_row
    /\ dist_to = Unset
    /\ query_pred = NoQuery
    /\ rare_cancer = rare_cancer_of(cancer)
    /\ upsampled_cancer = [seed \in Seeds |-> <<>>]
    /\ pcgrid_table = Unset
    /\ prediction_table = Unset
    /\ near_neighbor = Unset

SpecSegments == InitSegments /\ [][SegmentsCell]_vars

\* The rows the three segments end on.
SegmentRows ==
    {near_neighbor.value.line2, near_neighbor.value.line3, near_neighbor.value.line4}

\* C28: the three segments end on three different rows of cancer, and these
\* are three rows nearest to new_obs, whatever the order of the first three
\* indices of np.argpartition.
C28_SegmentsAreThreeNearest ==
    near_neighbor.status = "ok" =>
        /\ Cardinality(SegmentRows) = 3
        /\ IsKNearest(SegmentRows, new_obs)

-----------------------------------------------------------------------------
(* The frame of the grid predictions (SpecUpsampledGrid) *)

\* C29: once pcgrid is built it keeps its rows of Perimeter and Concavity
\* and nothing else, after the prediction on rare_cancer and after the
\* prediction on upsampled_cancer; the labels are in prediction_table only.
C29_PcgridUnchanged ==
    pcgrid_table.status = "ok" => pcgrid_table.value = pcgrid

====
